---- MODULE Spec2Model ----
(***************************************************************************)
(* Model of imagesync (src/imagesync.go): DetectAndCopyImage, the tag      *)
(* filtering and planning of copyRepository, and its errgroup scheduler.   *)
(*                                                                         *)
(* Strings are sequences of tokens.  A token is a repository word ("r",    *)
(* "q", "latest"), a tag ("a", "b", ...), the separator ":" or ",", or     *)
(* the default registry prefix.  No token is a proper suffix of another,   *)
(* so strings.HasSuffix on the real strings agrees with IsSuffix on the    *)
(* token sequences.                                                        *)
(***************************************************************************)
EXTENDS Naturals, Integers, Sequences, FiniteSets, TLC

\* ------------------------------------------------------------------ bounds
NumTags == 2
MaxConcurrent == 2

\* ------------------------------------------------------- strings and tags
TagUniverse == <<"a", "b", "c", "latest">>

Tags == { TagUniverse[i] : i \in 1..NumTags }

TagIndex(t) == CHOOSE i \in 1..Len(TagUniverse) : TagUniverse[i] = t

\* the order of Go's string comparison on the tags of the universe
TagLess(s, t) == TagIndex(s) < TagIndex(t)

IsSuffix(suffix, s) ==
    /\ Len(suffix) <= Len(s)
    /\ SubSeq(s, Len(s) - Len(suffix) + 1, Len(s)) = suffix

ColonPositions(s) == { i \in 1..Len(s) : s[i] = ":" }

\* docker.ParseReference("//" + s): name[:tag], the tag defaulting to latest.
\* The locations of the model name no registry host with a port, so a second
\* ":" (as in "q:a:b"), a leading or a trailing ":" is an invalid reference.
ParseReference(s) ==
    LET cs == ColonPositions(s) IN
    IF s = <<>> \/ Cardinality(cs) > 1 \/ 1 \in cs \/ Len(s) \in cs
    THEN [ok |-> FALSE, name |-> <<>>, tag |-> <<>>]
    ELSE IF cs = {}
    THEN [ok |-> TRUE, name |-> s, tag |-> <<"latest">>]
    ELSE LET p == CHOOSE i \in cs : TRUE IN
         [ok |-> TRUE, name |-> SubSeq(s, 1, p - 1), tag |-> SubSeq(s, p + 1, Len(s))]

\* imageRef.DockerReference().String()
RefString(imageRef) == <<"docker.io/library/">> \o imageRef.name \o <<":">> \o imageRef.tag

hasTag(ref, imageRef) == IsSuffix(ref, RefString(imageRef))

\* the location really carries a tag (":tag" is written in the string)
ExplicitTag(loc) == ColonPositions(loc) # {}

\* --------------------------------------------------------- regular expressions
\* The patterns the model passes to regexp.Compile; "(" does not compile.
ValidPatterns == {"^[ac]$", "b", "a|latest"}

regexpCompileOK(pattern) == pattern \in ValidPatterns

\* re.MatchString(item) for the patterns above on the tags of the universe
MatchString(pattern, item) ==
    CASE pattern = "^[ac]$"   -> item \in {"a", "c"}
      [] pattern = "b"        -> item = "b"
      [] pattern = "a|latest" -> item \in {"a", "latest"}
      [] OTHER                -> FALSE

\* ------------------------------------------------------------- tag pipeline
\* slices.Sort(srcTags): insertion into an ascending list
RECURSIVE Insert(_, _)
Insert(sorted, t) ==
    IF sorted = <<>> THEN <<t>>
    ELSE IF TagLess(t, Head(sorted)) THEN <<t>> \o sorted
    ELSE <<Head(sorted)>> \o Insert(Tail(sorted), t)

\* a list left in the order of the listing
SortOmitted(ts) == ts

RECURSIVE Sort(_)
Sort(ts) == IF ts = <<>> THEN <<>> ELSE Insert(Sort(Tail(ts)), Head(ts))

\* strings.Split(s, ","): the fields between the commas.  A field is the
\* empty string, one tag, or (several tokens run together) a string that is
\* no tag of the universe.
FieldString(f) == IF f = <<>> THEN "" ELSE IF Len(f) = 1 THEN f[1] ELSE "?"

RECURSIVE SplitFields(_, _)
SplitFields(s, field) ==
    IF s = <<>> THEN <<FieldString(field)>>
    ELSE IF Head(s) = "," THEN <<FieldString(field)>> \o SplitFields(Tail(s), <<>>)
    ELSE SplitFields(Tail(s), Append(field, Head(s)))

Split(s) == SplitFields(s, <<>>)

\* lo.Contains(ts, term)
Contains(ts, term) == \E i \in 1..Len(ts) : ts[i] = term

\* subtract(ts1, ts2): the terms of ts1 that ts2 does not contain, in order
RECURSIVE subtract(_, _)
subtract(ts1, ts2) ==
    IF ts1 = <<>> THEN <<>>
    ELSE IF Contains(ts2, Head(ts1)) THEN subtract(Tail(ts1), ts2)
    ELSE <<Head(ts1)>> \o subtract(Tail(ts1), ts2)

\* lo.Filter(srcTags, keep)
RECURSIVE Filter(_, _, _)
Filter(ts, pattern, wanted) ==
    IF ts = <<>> THEN <<>>
    ELSE IF MatchString(pattern, Head(ts)) = wanted
         THEN <<Head(ts)>> \o Filter(Tail(ts), pattern, wanted)
         ELSE Filter(Tail(ts), pattern, wanted)

\* copyRepository, lines 173-197: sort, skip tags, match tags, exclude tags.
\* The regexp errors of lines 184 and 194 are RegexpError below.
SkipStep(ts, skipTags) == IF skipTags # <<>> THEN subtract(ts, Split(skipTags)) ELSE ts

MatchStep(ts, pattern) == IF pattern # "" THEN Filter(ts, pattern, TRUE) ELSE ts

\* the exclude step with the negation of line 196 dropped
ExcludeStepKeepsMatches(ts, pattern) ==
    IF pattern # "" THEN Filter(ts, pattern, TRUE) ELSE ts

ExcludeStep(ts, pattern) == IF pattern # "" THEN Filter(ts, pattern, FALSE) ELSE ts

FilterTags(listed, cfg) ==
    ExcludeStep(MatchStep(SkipStep(Sort(listed), cfg.SkipTags), cfg.TagsPattern),
                cfg.SkipTagsPattern)

\* regexp.Compile errors that are not looked at
RegexpErrorIgnored(cfg) == ""

\* the pattern whose regexp.Compile fails first, "" when none does
RegexpError(cfg) ==
    IF cfg.TagsPattern # "" /\ ~regexpCompileOK(cfg.TagsPattern) THEN cfg.TagsPattern
    ELSE IF cfg.SkipTagsPattern # "" /\ ~regexpCompileOK(cfg.SkipTagsPattern)
    THEN cfg.SkipTagsPattern
    ELSE ""

\* the plan with the test of line 201 dropped
ResolvePlanAlwaysSubtracts(filtered, destTags, destErr, overwrite) ==
    subtract(filtered, destTags)

\* copyRepository, lines 199-205
ResolvePlan(filtered, destTags, destErr, overwrite) ==
    IF overwrite \/ destErr THEN filtered ELSE subtract(filtered, destTags)

\* the test of line 207 never taken
PlanIsEmptyNever(ts) == FALSE

\* copyRepository, line 207
PlanIsEmpty(ts) == Len(ts) = 0

\* copyRepository, lines 215-218
WorkerCount(maxConcurrentTags, n) ==
    IF n < maxConcurrentTags THEN n ELSE maxConcurrentTags

\* ------------------------------------------------------------------- state
VARIABLES
    c,              \* the CliInput
    stat,           \* os.Stat(c.Source): "dir", "file" or "none" (an error)
    pc,             \* where DetectAndCopyImage / copyRepository stands
    outcome,        \* how the run ended: "running", "nil", an error, "exit0"
    imageCopies,    \* the copyImage calls made by DetectAndCopyImage itself,
                    \* in order: TRUE for a call that returned nil
    listLog,        \* the docker.GetRepositoryTags calls made, in order
    srcRepository,  \* copyRepository's parameter srcRepository
    destRepository, \* copyRepository's parameter destRepository
    srcTags,        \* copyRepository's srcTags
    destErr,        \* whether listing destRepository failed
    tags,           \* copyRepository's tags: the plan
    ch,             \* the buffered channel
    closed,         \* close(ch) was called
    sent,           \* tags the producer goroutine has sent
    wpc,            \* per worker goroutine: "recv", "copy" or "done"
    wtag,           \* per worker goroutine: the tag it is copying
    groupErr,       \* the errgroup's first error, "nil" when none
    copyFails,      \* the plan tags whose copy.Image fails
    attempts,       \* per tag: copyImage calls made by the workers
    copied,         \* worker copyImage calls that returned nil
    failed,         \* worker copyImage calls that returned an error
    crResult        \* what copyRepository returned, "none" before it does

vars == <<c, stat, pc, outcome, imageCopies, listLog, srcRepository, destRepository,
          srcTags, destErr, tags, ch, closed, sent, wpc, wtag, groupErr, copyFails,
          attempts, copied, failed, crResult>>

schedVars == <<ch, closed, sent, wpc, wtag, groupErr, copyFails, attempts, copied, failed>>

planVars == <<srcRepository, destRepository, srcTags, destErr, tags, listLog>>

\* ------------------------------------------------------------------ inputs
SourceLocations == { <<"r">>, <<"r", ":", "a">>, <<"r", ":">> }

DestinationLocations == { <<"q">>, <<"q", ":", "a">>, <<"latest">>, <<"q", ":">> }

SkipTagsInputs == { <<>>, <<"b">> }

TagsPatternInputs == { "", "^[ac]$", "(" }

SkipTagsPatternInputs == { "", "b", "(" }

CliInputs ==
    [ Source : SourceLocations,
      Destination : DestinationLocations,
      TagsPattern : TagsPatternInputs,
      SkipTagsPattern : SkipTagsPatternInputs,
      SkipTags : SkipTagsInputs,
      Overwrite : BOOLEAN,
      MaxConcurrentTags : (-1)..MaxConcurrent ]

\* what a registry can answer to a tag listing: its tags, each once, in any order
NoDuplicates(ts) == \A i, j \in 1..Len(ts) : ts[i] = ts[j] => i = j

TagLists == UNION { { ts \in [1..n -> Tags] : NoDuplicates(ts) } : n \in 0..NumTags }

ListResults == [ ok : {TRUE}, tags : TagLists ] \cup [ ok : {FALSE}, tags : {<<>>} ]

NoRef == [ok |-> FALSE, name |-> <<>>, tag |-> <<>>]

Init ==
    /\ c \in CliInputs
    /\ stat \in {"dir", "file", "none"}
    /\ pc = "start"
    /\ outcome = "running"
    /\ imageCopies = <<>>
    /\ listLog = <<>>
    /\ srcRepository = NoRef
    /\ destRepository = NoRef
    /\ srcTags = <<>>
    /\ destErr = FALSE
    /\ tags = <<>>
    /\ ch = <<>>
    /\ closed = FALSE
    /\ sent = 0
    /\ wpc = <<>>
    /\ wtag = <<>>
    /\ groupErr = "nil"
    /\ copyFails = {}
    /\ attempts = [t \in Tags |-> 0]
    /\ copied = 0
    /\ failed = 0
    /\ crResult = "none"

destRef == ParseReference(c.Destination)

srcRef == ParseReference(c.Source)

Return(err) == outcome' = err /\ pc' = "done"

\* a copyImage error that is not returned
CopyErrorDropped(copyOK, err) == "nil"

\* lines 120-121, 134-135, 145-146: the error of copyImage is returned wrapped
CopyError(copyOK, err) == IF copyOK THEN "nil" ELSE err

\* os.Stat never finding the source
StatResultNotFound == "none"

\* line 113: what os.Stat(c.Source) answers
StatResult == stat

\* ------------------------------------------------------ DetectAndCopyImage
\* lines 95-98
ParseDestination ==
    /\ pc = "start"
    /\ IF destRef.ok THEN pc' = "stat" /\ outcome' = outcome
       ELSE Return("parsing destination ref")
    /\ UNCHANGED <<c, stat, imageCopies, planVars, schedVars, crResult>>

\* lines 113-125: the source is a directory
CopyOciLayout ==
    /\ pc = "stat" /\ StatResult = "dir"
    /\ \E parsed, copyOK \in BOOLEAN :
         IF ~parsed THEN Return("parsing source oci ref") /\ imageCopies' = imageCopies
         ELSE /\ imageCopies' = Append(imageCopies, copyOK)
              /\ Return(CopyError(copyOK, "copy oci layout"))
    /\ UNCHANGED <<c, stat, planVars, schedVars, crResult>>

\* lines 127-137, 157-158: the source is a file
CopyArchive ==
    /\ pc = "stat" /\ StatResult = "file"
    /\ \E ociOK, parsed, dockerOK \in BOOLEAN :
         IF ociOK THEN imageCopies' = Append(imageCopies, TRUE) /\ Return("nil")
         ELSE IF ~parsed
         THEN /\ imageCopies' = Append(imageCopies, FALSE)
              /\ Return("parsing source docker-archive ref")
         ELSE /\ imageCopies' = imageCopies \o <<FALSE, dockerOK>>
              /\ Return(CopyError(dockerOK, "copy docker-archive layout"))
    /\ UNCHANGED <<c, stat, planVars, schedVars, crResult>>

\* the arguments of the call of line 150, in the order of the parameters
\* (ctx, c, destRepository, srcRepository, opts) of line 161
CallCopyRepository ==
    /\ destRepository' = srcRef
    /\ srcRepository' = destRef
    /\ pc' = "listSource"
    /\ outcome' = outcome

\* lines 138-158: the source is no local path
CopyFromRegistry ==
    /\ pc = "stat" /\ StatResult = "none"
    /\ IF ~srcRef.ok
       THEN Return("parsing source docker ref")
            /\ UNCHANGED <<imageCopies, srcRepository, destRepository>>
       ELSE IF hasTag(c.Source, srcRef)
       THEN /\ \E copyOK \in BOOLEAN :
                   /\ Return(CopyError(copyOK, "copy tag"))
                   /\ imageCopies' = Append(imageCopies, copyOK)
            /\ UNCHANGED <<srcRepository, destRepository>>
       ELSE IF hasTag(c.Destination, destRef)
       THEN CallCopyRepository /\ imageCopies' = imageCopies
       ELSE Return("nil") /\ UNCHANGED <<imageCopies, srcRepository, destRepository>>
    /\ UNCHANGED <<c, stat, srcTags, destErr, tags, listLog, schedVars, crResult>>

\* lines 150-153: whatever copyRepository returned, an error is returned
ReturnFromCopyRepository ==
    /\ pc = "return"
    /\ Return("copy repository")
    /\ UNCHANGED <<c, stat, imageCopies, planVars, schedVars, crResult>>

\* ----------------------------------------------------------- copyRepository
ReturnFromCall(err) == crResult' = err /\ pc' = "return"

\* the error of the source listing not looked at
SourceListingFailedIgnored(res) == FALSE

\* line 169: err != nil
SourceListingFailed(res) == ~res.ok

\* lines 168-171
GetSourceTags ==
    /\ pc = "listSource"
    /\ \E res \in ListResults :
         /\ listLog' = Append(listLog, [ref |-> srcRepository, res |-> res])
         /\ IF SourceListingFailed(res)
            THEN srcTags' = srcTags /\ ReturnFromCall("getting source tags")
            ELSE srcTags' = res.tags /\ pc' = "filter" /\ crResult' = crResult
    /\ UNCHANGED <<c, stat, outcome, imageCopies, srcRepository, destRepository,
                   destErr, tags, schedVars>>

\* lines 173-197
FilterSourceTags ==
    /\ pc = "filter"
    /\ IF RegexpError(c) # ""
       THEN srcTags' = srcTags /\ ReturnFromCall("not valid regexp")
       ELSE srcTags' = FilterTags(srcTags, c) /\ pc' = "listDest" /\ crResult' = crResult
    /\ UNCHANGED <<c, stat, outcome, imageCopies, srcRepository, destRepository,
                   destErr, tags, listLog, schedVars>>

\* lines 199-205
GetDestinationTags ==
    /\ pc = "listDest"
    /\ \E res \in ListResults :
         /\ listLog' = Append(listLog, [ref |-> destRepository, res |-> res])
         /\ destErr' = ~res.ok
         /\ tags' = ResolvePlan(srcTags, res.tags, ~res.ok, c.Overwrite)
    /\ pc' = "plan"
    /\ UNCHANGED <<c, stat, outcome, imageCopies, srcRepository, destRepository,
                   srcTags, schedVars, crResult>>

\* lines 207-210: os.Exit(0)
AlreadySynced ==
    /\ pc = "plan"
    /\ PlanIsEmpty(tags)
    /\ outcome' = "exit0"
    /\ pc' = "done"
    /\ UNCHANGED <<c, stat, imageCopies, planVars, schedVars, crResult>>

\* lines 214-252: the worker goroutines and the producer goroutine are started
StartScheduler ==
    /\ pc = "plan"
    /\ ~PlanIsEmpty(tags)
    /\ wpc' = [w \in 1..WorkerCount(c.MaxConcurrentTags, Len(tags)) |-> "recv"]
    /\ wtag' = [w \in 1..WorkerCount(c.MaxConcurrentTags, Len(tags)) |-> ""]
    /\ ch' = <<>>
    /\ closed' = FALSE
    /\ sent' = 0
    /\ groupErr' = "nil"
    /\ copyFails' \in SUBSET { tags[i] : i \in 1..Len(tags) }
    /\ pc' = "wait"
    /\ UNCHANGED <<c, stat, outcome, imageCopies, planVars, attempts, copied, failed,
                   crResult>>

\* a channel made with room for one tag only
ChannelCapacityOne(ts) == 1

\* line 223: make(chan string, len(tags))
ChannelCapacity(ts) == Len(ts)

\* a receive that leaves the received tag in the channel
ReceiveLeavesTag(q) == q

\* line 227: what a receive leaves in the channel
AfterReceive(q) == Tail(q)

\* an errgroup that forgets the errors of its goroutines
GroupErrorDropped(err) == groupErr

\* errgroup: the first error returned by a goroutine is kept and cancels ctx
GroupError(err) == IF groupErr = "nil" THEN err ELSE groupErr

cancelled == groupErr # "nil"

\* lines 226-239: receive a tag, parse both references, call copyImage
WorkerReceive(w) ==
    /\ pc = "wait"
    /\ wpc[w] = "recv"
    /\ IF ch # <<>>
       THEN /\ ch' = AfterReceive(ch)
            /\ IF /\ ParseReference(c.Destination \o <<":", Head(ch)>>).ok
                  /\ ParseReference(c.Source \o <<":", Head(ch)>>).ok
               THEN /\ wpc' = [wpc EXCEPT ![w] = "copy"]
                    /\ wtag' = [wtag EXCEPT ![w] = Head(ch)]
                    /\ attempts' = [attempts EXCEPT ![Head(ch)] = @ + 1]
                    /\ groupErr' = groupErr
               ELSE /\ wpc' = [wpc EXCEPT ![w] = "done"]
                    /\ groupErr' = GroupError("parsing reference")
                    /\ UNCHANGED <<wtag, attempts>>
       ELSE /\ closed
            /\ wpc' = [wpc EXCEPT ![w] = "done"]
            /\ UNCHANGED <<ch, wtag, attempts, groupErr>>
    /\ UNCHANGED <<c, stat, pc, outcome, imageCopies, planVars, closed, sent,
                   copyFails, copied, failed, crResult>>

\* lines 239-242: copyImage returns; an error ends the worker.  A copy running
\* under a cancelled ctx may fail although the registry would have served it.
WorkerCopyReturn(w) ==
    /\ pc = "wait"
    /\ wpc[w] = "copy"
    /\ \E copyOK \in BOOLEAN :
         /\ copyOK => wtag[w] \notin copyFails
         /\ ~copyOK => (wtag[w] \in copyFails \/ cancelled)
         /\ IF copyOK
            THEN /\ copied' = copied + 1
                 /\ wpc' = [wpc EXCEPT ![w] = "recv"]
                 /\ UNCHANGED <<failed, groupErr>>
            ELSE /\ failed' = failed + 1
                 /\ wpc' = [wpc EXCEPT ![w] = "done"]
                 /\ groupErr' = GroupError("copying image")
                 /\ copied' = copied
    /\ wtag' = [wtag EXCEPT ![w] = ""]
    /\ UNCHANGED <<c, stat, pc, outcome, imageCopies, planVars, ch, closed, sent,
                   copyFails, attempts, crResult>>

\* lines 247-249: ch has capacity len(tags)
ProducerSend ==
    /\ pc = "wait"
    /\ sent < Len(tags)
    /\ Len(ch) < ChannelCapacity(tags)
    /\ ch' = Append(ch, tags[sent + 1])
    /\ sent' = sent + 1
    /\ UNCHANGED <<c, stat, pc, outcome, imageCopies, planVars, closed, wpc, wtag,
                   groupErr, copyFails, attempts, copied, failed, crResult>>

\* lines 250-251
ProducerClose ==
    /\ pc = "wait"
    /\ sent = Len(tags)
    /\ ~closed
    /\ closed' = TRUE
    /\ UNCHANGED <<c, stat, pc, outcome, imageCopies, planVars, ch, sent, wpc, wtag,
                   groupErr, copyFails, attempts, copied, failed, crResult>>

\* the result of wg.Wait() replaced by nil
WaitResultNil == "nil"

\* line 254: copyRepository returns what wg.Wait() returns
WaitResult == groupErr

\* line 254: wg.Wait() returns once every goroutine of the group has returned
Wait ==
    /\ pc = "wait"
    /\ closed
    /\ \A w \in 1..Len(wpc) : wpc[w] = "done"
    /\ ReturnFromCall(WaitResult)
    /\ UNCHANGED <<c, stat, outcome, imageCopies, planVars, schedVars>>

Next ==
    \/ ParseDestination
    \/ CopyOciLayout
    \/ CopyArchive
    \/ CopyFromRegistry
    \/ ReturnFromCopyRepository
    \/ GetSourceTags
    \/ FilterSourceTags
    \/ GetDestinationTags
    \/ AlreadySynced
    \/ StartScheduler
    \/ \E w \in 1..Len(wpc) : WorkerReceive(w)
    \/ \E w \in 1..Len(wpc) : WorkerCopyReturn(w)
    \/ ProducerSend
    \/ ProducerClose
    \/ Wait

Spec == Init /\ [][Next]_vars

\* ----------------------------------------------- what the claims speak about
Ended == outcome # "running"

ReturnedError == outcome \notin {"running", "nil", "exit0"}

NoCopyCall == imageCopies = <<>> /\ \A t \in Tags : attempts[t] = 0

\* the source is no local path and both locations parse as registry references
RegistrySource == stat = "none" /\ srcRef.ok /\ destRef.ok

\* the log entries of the tag listings made at the repository of a reference
ListingsAt(imageRef) ==
    { i \in 1..Len(listLog) : listLog[i].ref.name = imageRef.name }

TagSet(ts) == { ts[i] : i \in 1..Len(ts) }

\* the scheduler was started for a non-empty plan and wg.Wait() has returned
SchedulerReturned == pc \in {"return", "done"} /\ Len(listLog) = 2 /\ tags # <<>>

InProgress == Cardinality({ w \in 1..Len(wpc) : wpc[w] = "copy" })

Min(a, b) == IF a < b THEN a ELSE b

\* C1: when the source is no local path and neither the source nor the
\* destination location carries an explicit tag, the run does not end without
\* having listed the source tags; it never returns success as a silent no-op.
C1_RepositorySyncListsTags ==
    (RegistrySource /\ ~ExplicitTag(c.Source) /\ ~ExplicitTag(c.Destination) /\ Ended)
        => listLog # <<>>

\* C2: when the source location carries no explicit tag and the destination
\* location carries one, the run makes no tag listing and no copy call, and it
\* ends with an error.
C2_DestinationTagIsRejectedOffline ==
    (RegistrySource /\ ~ExplicitTag(c.Source) /\ ExplicitTag(c.Destination))
        => /\ listLog = <<>>
           /\ NoCopyCall
           /\ Ended => ReturnedError

\* C3: in a repository sync with overwrite=false and a successful destination
\* tag listing, every tag a copy is invoked for is listed at the repository
\* named by c.Source and is not listed at the repository named by c.Destination.
C3_PlanWithinSourceMinusDestination ==
    (RegistrySource /\ ~c.Overwrite)
        => \A t \in Tags :
             attempts[t] > 0 =>
               /\ \A i \in ListingsAt(destRef) :
                    listLog[i].res.ok => t \notin TagSet(listLog[i].res.tags)
               /\ \E i \in ListingsAt(srcRef) :
                    listLog[i].res.ok /\ t \in TagSet(listLog[i].res.tags)

\* ---------------------------------------- the tag pipeline on wider inputs
\* copyRepository from the point where the source listing has answered, for
\* every listing over the whole tag universe and a wider set of filters.
AllTags == TagSet(TagUniverse)

AllTagLists ==
    UNION { { ts \in [1..n -> AllTags] : NoDuplicates(ts) } : n \in 0..Len(TagUniverse) }

SkipTagsFilterInputs ==
    { <<>>, <<"b">>, <<"a", ",", "b">>, <<",", "c">>, <<"latest", ",", "b", ",">> }

PatternFilterInputs == ValidPatterns \cup { "", "(" }

InitFilter ==
    /\ c \in [ Source : { <<"r">> },
               Destination : { <<"latest">> },
               TagsPattern : PatternFilterInputs,
               SkipTagsPattern : PatternFilterInputs,
               SkipTags : SkipTagsFilterInputs,
               Overwrite : BOOLEAN,
               MaxConcurrentTags : {1} ]
    /\ stat = "none"
    /\ pc = "filter"
    /\ outcome = "running"
    /\ imageCopies = <<>>
    /\ srcTags \in AllTagLists
    /\ listLog = << [ref |-> destRef, res |-> [ok |-> TRUE, tags |-> srcTags]] >>
    /\ srcRepository = destRef
    /\ destRepository = srcRef
    /\ destErr = FALSE
    /\ tags = <<>>
    /\ ch = <<>>
    /\ closed = FALSE
    /\ sent = 0
    /\ wpc = <<>>
    /\ wtag = <<>>
    /\ groupErr = "nil"
    /\ copyFails = {}
    /\ attempts = [t \in Tags |-> 0]
    /\ copied = 0
    /\ failed = 0
    /\ crResult = "none"

NextFilter == FilterSourceTags \/ GetDestinationTags

SpecFilter == InitFilter /\ [][NextFilter]_vars

\* the tag list the source listing answered
ListedSourceTags == listLog[1].res.tags

Count(ts, t) == Cardinality({ i \in 1..Len(ts) : ts[i] = t })

Ascending(ts) == \A i, j \in 1..Len(ts) : i < j => ~TagLess(ts[j], ts[i])

\* t stands between commas (or the ends) of the skip-list
InSkipList(t, skipTags) ==
    \E i \in 1..Len(skipTags) :
        /\ skipTags[i] = t
        /\ i = 1 \/ skipTags[i - 1] = ","
        /\ i = Len(skipTags) \/ skipTags[i + 1] = ","

InScope(t) ==
    /\ ~InSkipList(t, c.SkipTags)
    /\ c.TagsPattern # "" => MatchString(c.TagsPattern, t)
    /\ c.SkipTagsPattern # "" => ~MatchString(c.SkipTagsPattern, t)

Filtered == pc \in {"listDest", "plan"}

ExampleOfC4 ==
    /\ pc = "plan"
    /\ TagSet(ListedSourceTags) = {"a", "b", "c", "latest"}
    /\ c.SkipTags = <<"b">>
    /\ c.TagsPattern = "^[ac]$"
    /\ c.SkipTagsPattern = ""
    /\ ~c.Overwrite
    /\ listLog[2].res = [ok |-> TRUE, tags |-> <<"a">>]

\* C4: the filtered tag list is exactly the listed source tags, in ascending
\* order, that are not in the skip-list, match the include pattern when one is
\* set and do not match the exclude pattern when one is set; source
\* [a,b,c,latest], skip-list b, include ^[ac]$, destination [a], overwrite=false
\* gives the plan [c].
C4_FilteredTagsAreTheTagsInScope ==
    /\ Filtered =>
         /\ Ascending(srcTags)
         /\ \A t \in AllTags :
              Count(srcTags, t) = IF InScope(t) THEN Count(ListedSourceTags, t) ELSE 0
    /\ ExampleOfC4 => tags = <<"c">>

C4_Witness == ExampleOfC4 /\ ListedSourceTags = <<"latest", "c", "a", "b">> /\ srcTags = <<"a", "c">>

\* ------------------------------------------------- planning and scheduling
\* copyRepository has listed the tags of destRepository and computed the plan
PlanComputed == Len(listLog) = 2

C6_EmptyPlanEndsInSuccessWithoutScheduler ==
    (PlanComputed /\ tags = <<>>) =>
        /\ pc \in {"plan", "done"}
        /\ pc = "done" => outcome = "exit0"
        /\ pc = "plan" => outcome = "running"
        /\ wpc = <<>> /\ ch = <<>> /\ sent = 0
        /\ NoCopyCall
        /\ crResult = "none"

C6_Witness ==
    /\ outcome = "exit0"
    /\ ~c.Overwrite /\ ~destErr
    /\ Len(srcTags) = 2
    /\ TagSet(listLog[2].res.tags) = TagSet(srcTags)

\* C7: in every state of the copy scheduler the number of per-tag copy calls
\* in progress is at most min(MaxConcurrentTags, len(plan)).
C7_InProgressAtMostMin ==
    pc = "wait" => InProgress <= Min(c.MaxConcurrentTags, Len(tags))

\* C8: with a non-empty plan, a MaxConcurrentTags of 0 or less makes the run
\* end in a configuration error: copyRepository never returns success for it,
\* and the run ends with an error.
C8_NonPositiveConcurrencyIsRejected ==
    (PlanComputed /\ tags # <<>> /\ c.MaxConcurrentTags <= 0) =>
        /\ crResult # "nil"
        /\ Ended => ReturnedError

\* C9: no plan tag is handed to the copy operation more than once: the channel
\* always holds the last tags sent and nothing else (a received tag is never
\* sent again), a tag a worker holds is not in the channel, and copyImage is
\* called at most once per tag.
C9_NoTagCopiedTwice ==
    /\ Len(ch) <= sent
    /\ sent <= Len(tags)
    /\ PlanComputed => ch = SubSeq(tags, sent - Len(ch) + 1, sent)
    /\ \A t \in Tags :
         /\ attempts[t] <= 1
         /\ Count(ch, t) + Count(wtag, t) <= 1
         /\ attempts[t] = 1 => Count(ch, t) = 0

C9_Witness ==
    /\ SchedulerReturned
    /\ Len(wpc) = 2
    /\ \A t \in Tags : attempts[t] = 1
    /\ failed = 2

\* C10: per-tag copy errors are ignored by the copy scheduler: when it returns
\* (with at least one worker, and every reference parsed), every tag of the
\* plan was attempted exactly once and copied + failed = len(plan).
C10_EveryTagAttemptedOnce ==
    (SchedulerReturned /\ c.MaxConcurrentTags >= 1 /\ crResult # "parsing reference") =>
        /\ copied + failed = Len(tags)
        /\ \A i \in 1..Len(tags) : attempts[tags[i]] = 1

\* ------------------------------------------------------------- termination
\* The Go scheduler runs every goroutine that can take a step, and every
\* copyImage call returns.
WorkerStep(w) == w \in 1..Len(wpc) /\ (WorkerReceive(w) \/ WorkerCopyReturn(w))

SpecFair ==
    /\ Spec
    /\ WF_vars(ProducerSend)
    /\ WF_vars(ProducerClose)
    /\ \A w \in 1..MaxConcurrent : WF_vars(WorkerStep(w))
    /\ WF_vars(Wait)

AllGoroutinesReturned ==
    /\ sent = Len(tags)
    /\ closed
    /\ \A w \in 1..Len(wpc) : wpc[w] = "done"

\* C11: the copy scheduler always terminates: the producer can always send its
\* next tag (it never blocks), and once the scheduler is started wg.Wait()
\* eventually returns; it returns only after the producer and every worker
\* have returned, also when workers return early on a copy failure.
C11_SchedulerTerminates ==
    /\ []((pc = "wait" /\ sent < Len(tags)) => ENABLED ProducerSend)
    /\ [](SchedulerReturned => AllGoroutinesReturned)
    /\ (pc = "wait") ~> (pc = "return")

C11_Witness ==
    /\ pc = "return"
    /\ AllGoroutinesReturned
    /\ failed = 1
    /\ ch # <<>>

\* ------------------------------------------------------ single-image modes
ParseErrors ==
    { "parsing destination ref", "parsing source oci ref",
      "parsing source docker-archive ref", "parsing source docker ref" }

\* an OCI layout directory, an archive file, or a registry image with a tag
SingleImageSource ==
    \/ stat \in {"dir", "file"}
    \/ stat = "none" /\ srcRef.ok /\ ExplicitTag(c.Source)

LastCopy == imageCopies[Len(imageCopies)]

\* C12 as stated: for a local archive file, a local OCI layout directory or a
\* registry image with an explicit tag, a run that ends without a reference
\* parse error has made exactly one copy call, and returns success if and
\* only if that call succeeded.
C12_ExactlyOneCopyCall ==
    (SingleImageSource /\ Ended /\ outcome \notin ParseErrors) =>
        /\ Len(imageCopies) = 1
        /\ outcome = "nil" <=> imageCopies = <<TRUE>>

\* C12 as amended: an OCI layout directory and a tagged registry image get
\* exactly one copy call; an archive file gets one copy call as OCI archive and,
\* only after that one failed, at most one more as docker archive; no tag is
\* listed; the run returns success if and only if its last copy call
\* succeeded, and it makes no copy call only on a reference parse error.
C12_OneCopyCallOrArchiveFallback ==
    (SingleImageSource /\ destRef.ok /\ Ended) =>
        /\ listLog = <<>> /\ \A t \in Tags : attempts[t] = 0
        /\ stat # "file" => Len(imageCopies) <= 1
        /\ stat = "file" =>
             /\ Len(imageCopies) \in {1, 2}
             /\ Len(imageCopies) = 2 => ~imageCopies[1]
             /\ (Len(imageCopies) = 1 /\ ~imageCopies[1])
                    => outcome = "parsing source docker-archive ref"
        /\ imageCopies = <<>> => outcome \in ParseErrors
        /\ outcome = "nil" <=> (imageCopies # <<>> /\ LastCopy)

C12_Witness ==
    /\ stat = "file" /\ Ended
    /\ imageCopies = <<FALSE, TRUE>>
    /\ outcome = "nil"

\* -------------------------------------------------------- invalid patterns
\* copyRepository was called
InCopyRepository == srcRepository # NoRef

InvalidPattern ==
    \/ c.TagsPattern # "" /\ ~regexpCompileOK(c.TagsPattern)
    \/ c.SkipTagsPattern # "" /\ ~regexpCompileOK(c.SkipTagsPattern)

\* C13 as stated: in a copyRepository run with an include or exclude pattern
\* that is no valid regular expression, no tag listing and no copy call
\* happens, and the run ends with an error.
C13_InvalidPatternFailsBeforeNetwork ==
    (InCopyRepository /\ InvalidPattern) =>
        /\ listLog = <<>>
        /\ NoCopyCall
        /\ Ended => ReturnedError

\* C13 as amended: in a copyRepository run with an invalid pattern, the
\* source tags are listed first; copyRepository then returns the regexp error
\* (or the listing's error) without listing the destination tags, starting a
\* worker or making a copy call, and the run ends with an error.
C13_InvalidPatternFailsAfterSourceListing ==
    (InCopyRepository /\ InvalidPattern) =>
        /\ Len(listLog) <= 1
        /\ NoCopyCall /\ wpc = <<>> /\ tags = <<>>
        /\ pc \in {"listSource", "filter", "return", "done"}
        /\ pc \in {"return", "done"} =>
             /\ Len(listLog) = 1
             /\ crResult = IF listLog[1].res.ok THEN "not valid regexp"
                           ELSE "getting source tags"
        /\ Ended => outcome = "copy repository"

C13_Witness ==
    /\ Ended
    /\ c.TagsPattern = "^[ac]$" /\ c.SkipTagsPattern = "("
    /\ crResult = "not valid regexp"
    /\ Len(listLog) = 1 /\ Len(listLog[1].res.tags) = 2

\* -------------------------------------------------------- source detection
OciLayoutOutcomes == { "nil", "copy oci layout", "parsing source oci ref" }

ArchiveOutcomes ==
    { "nil", "copy docker-archive layout", "parsing source docker-archive ref" }

SingleTagOutcomes == { "nil", "copy tag" }

\* C14: detection is first-match-wins in the order directory, regular file,
\* tagged registry image, repository: a source that exists as a directory is
\* copied as an OCI layout, one that exists as a regular file as an archive,
\* whatever registry reference the same string would parse as, and a source
\* with a tag as a single image; none of them has a registry tag listing.
C14_FirstMatchWins ==
    destRef.ok =>
        /\ (stat \in {"dir", "file"} \/ (srcRef.ok /\ ExplicitTag(c.Source))) =>
             /\ ~InCopyRepository
             /\ listLog = <<>>
             /\ \A t \in Tags : attempts[t] = 0
        /\ (stat = "dir" /\ Ended) => outcome \in OciLayoutOutcomes
        /\ (stat = "file" /\ Ended) => outcome \in ArchiveOutcomes
        /\ (stat = "none" /\ srcRef.ok /\ ExplicitTag(c.Source) /\ Ended)
               => outcome \in SingleTagOutcomes
        /\ (Ended /\ outcome \in {"copy oci layout", "copy docker-archive layout", "copy tag"})
               => (imageCopies # <<>> /\ ~LastCopy)

C14_Witness ==
    /\ stat = "dir"
    /\ c.Source = <<"r">> /\ srcRef.ok /\ hasTag(c.Destination, destRef)
    /\ outcome = "copy oci layout"

\* ------------------------------------------------------------ cancellation
\* C15: once a per-tag copy has failed, no worker takes another tag from the
\* channel and no copy call is started.
C15_NoDequeueAfterFailure ==
    [][failed >= 1 => (attempts' = attempts /\ Len(ch') >= Len(ch))]_vars

\* ------------------------------------------------------ the scheduler's result
EveryTagCopied ==
    /\ copied = Len(tags)
    /\ \A i \in 1..Len(tags) : attempts[tags[i]] = 1

\* C16: whenever every worker has returned without an error and the copy
\* scheduler returns success, the channel holds no tag: every tag of the plan
\* was received and its copy succeeded.
C16_SuccessLeavesNoTag ==
    (SchedulerReturned /\ crResult = "nil") => (ch = <<>> /\ EveryTagCopied)

\* the references of lines 231 and 235 parse for every tag of the plan
TagReferencesParse ==
    \A i \in 1..Len(tags) :
        /\ ParseReference(c.Destination \o <<":", tags[i]>>).ok
        /\ ParseReference(c.Source \o <<":", tags[i]>>).ok

\* C17: whether the copy scheduler returns success or an error is a function
\* of the plan, the worker count and the assignment of copy outcomes to the
\* tags, the same in every interleaving: it returns success exactly when there
\* is no worker, or no tag's copy fails and the per-tag references parse.
C17_ResultIndependentOfInterleaving ==
    SchedulerReturned =>
        (crResult = "nil" <=>
            \/ WorkerCount(c.MaxConcurrentTags, Len(tags)) <= 0
            \/ copyFails = {} /\ TagReferencesParse)

C17_Witness ==
    /\ SchedulerReturned
    /\ Len(wpc) = 2
    /\ tags = <<"a", "b">> /\ copyFails = {"b"}
    /\ copied = 1 /\ failed = 1
    /\ crResult = "copying image"

RECURSIVE IsSubsequence(_, _)
IsSubsequence(sub, ts) ==
    IF sub = <<>> THEN TRUE
    ELSE IF ts = <<>> THEN FALSE
    ELSE IF Head(sub) = Head(ts) THEN IsSubsequence(Tail(sub), Tail(ts))
    ELSE IsSubsequence(sub, Tail(ts))

\* C19: the plan handed to the copy scheduler is in ascending order and holds
\* no tag twice, whatever the order of the source tag listing; the filtered
\* list and the plan keep the order of the sorted source list.
C19_PlanIsSortedWithoutDuplicates ==
    /\ pc \in {"listDest", "plan", "wait"} =>
         /\ Ascending(srcTags) /\ NoDuplicates(srcTags)
         /\ TagSet(srcTags) \subseteq TagSet(ListedSourceTags)
    /\ PlanComputed =>
         /\ Ascending(tags) /\ NoDuplicates(tags)
         /\ IsSubsequence(tags, srcTags)

C19_Witness ==
    /\ pc = "wait"
    /\ ListedSourceTags = <<"b", "a">>
    /\ tags = <<"a", "b">>

\* C20: if listing the source repository's tags fails, copyRepository returns
\* the listing error at once: the destination is not listed, no worker is
\* started and no copy call is made.
C20_SourceListingFailureReturnsAtOnce ==
    (listLog # <<>> /\ ~listLog[1].res.ok) =>
        /\ Len(listLog) = 1
        /\ pc \in {"return", "done"}
        /\ crResult = "getting source tags"
        /\ wpc = <<>> /\ ch = <<>> /\ sent = 0 /\ tags = <<>>
        /\ NoCopyCall
        /\ Ended => outcome = "copy repository"

C20_Witness ==
    /\ Ended
    /\ Len(listLog) = 1 /\ ~listLog[1].res.ok
    /\ crResult = "getting source tags"
    /\ ~InvalidPattern
====
